---------------------------- MODULE Spec2Model ----------------------------
(***************************************************************************)
(* Sacred Soundscapes: the MusicBrain feature extractor, the ColorBrain    *)
(* palette generator (src/src/lib/musicBrain.ts) and the AudioVisualizer   *)
(* component that drives them from an interval timer and draws from an     *)
(* animation-frame callback (src/src/components/AudioVisualizer.tsx).      *)
(*                                                                         *)
(* Numbers.  The program computes in IEEE doubles; the model computes in   *)
(* fixed point.  A spectrum sample is an integer number of eighths         *)
(* (SampleScale; eighths are exact in binary floating point), every        *)
(* feature, hue, saturation and lightness an integer number of thousandths *)
(* (Scale).  Division and square root round down.  emotionalIntensity, a   *)
(* sum divided by 3, is kept as the sum (thirds of a thousandth).          *)
(* Sums of squared deviations are kept in the integer form                 *)
(* n*Sum(x^2) - Sum(x)^2 (= n * Sum((x - mean)^2)), which is the same real *)
(* number as the code's two-pass form and fits a 32-bit integer.           *)
(***************************************************************************)
EXTENDS Integers, Sequences, FiniteSets, TLC

\* three decimal places; three binary places
Scale == 10 * 10 * 10
SampleScale == 2 * 2 * 2
FrameLength == 128

-----------------------------------------------------------------------------
(* Arithmetic helpers *)

Min(a, b) == IF a < b THEN a ELSE b
Max(a, b) == IF a > b THEN a ELSE b
Abs(a) == IF a < 0 THEN 0 - a ELSE a

\* a * k for a decimal constant k written in thousandths
Mul(a, k) == (a * k) \div Scale

\* the JavaScript remainder operator: the result takes the sign of the dividend
JsMod(a, m) == IF a >= 0 THEN a % m ELSE 0 - ((0 - a) % m)

RECURSIVE SqrtSearch(_, _, _)
SqrtSearch(n, lo, hi) ==
  IF lo >= hi THEN lo
  ELSE LET mid == (lo + hi + 1) \div 2
       IN IF mid * mid <= n THEN SqrtSearch(n, mid, hi)
                            ELSE SqrtSearch(n, lo, mid - 1)

\* Math.sqrt, rounded down
ISqrt(n) == IF n <= 0 THEN 0 ELSE SqrtSearch(n, 0, Min(n, 46340))

\* sums are folded by halves, which keeps the evaluation depth logarithmic
RECURSIVE SumRange(_, _, _)
SumRange(s, lo, hi) ==
  IF lo > hi THEN 0
  ELSE IF lo = hi THEN s[lo]
  ELSE LET m == (lo + hi) \div 2
       IN SumRange(s, lo, m) + SumRange(s, m + 1, hi)

\* arr.reduce((sum, val) => sum + val, 0)
Sum(s) == SumRange(s, 1, Len(s))

\* arr.reduce((sum, val) => sum + val * val, 0)
SumSq(s) == SumRange([i \in 1..Len(s) |-> s[i] * s[i]], 1, Len(s))

\* sum of the products of corresponding elements
SumProd(s, t) == SumRange([i \in 1..Len(s) |-> s[i] * t[i]], 1, Len(s))

\* Array.prototype.slice(a, b) with zero-based, end-exclusive indices
Slice(s, a, b) == SubSeq(s, Min(a, Len(s)) + 1, Min(b, Len(s)))

\* Array.prototype.slice(-n)
LastN(s, n) == SubSeq(s, Max(1, Len(s) - n + 1), Len(s))

\* a JavaScript number that may be NaN: NaN is <<>>, the number v is <<v>>
NaN == <<>>
Num(v) == <<v>>

\* mean of a non-empty slice of samples (eighths), as a feature (thousandths)
Mean(s) == (Sum(s) * (Scale \div SampleScale)) \div Len(s)

-----------------------------------------------------------------------------
(* MusicBrain (musicBrain.ts 27-257).  The private fields are the          *)
(* variables previousFeatures, beatHistory, energyHistory and time; the    *)
(* methods below take the fields they read as arguments.  An absent        *)
(* previousFeatures (null) is the empty sequence, a present one <<f>>.     *)

Moods == {"calm", "energetic", "dramatic", "mysterious", "joyful"}
Genres == {"electronic", "acoustic", "classical", "rock", "ambient", "voice", "mixed"}
HistoryCap == 20

extractBass(audioData) == Mean(Slice(audioData, 0, 32))

extractMid(audioData) == Mean(Slice(audioData, 32, 96))

extractTreble(audioData) == Mean(Slice(audioData, 96, Len(audioData)))

calculateConsistency(values) ==
  IF Len(values) < 2 THEN 0
  ELSE LET n == Len(values)
           \* n^2 * variance
           dev == n * SumSq(values) - Sum(values) * Sum(values)
       IN Max(0, Scale - (ISqrt(dev) \div n))

\* an analyzeRhythm that clamps its result to 1
analyzeRhythmClamped(bass, mid, bh) ==
  LET rhythmicStrength == Max(Mul(bass, 1200), Mul(mid, 800))
  IN IF Len(bh) > 4
       THEN Min(Scale, Mul(rhythmicStrength,
                           Scale + Mul(calculateConsistency(LastN(bh, 4)), 500)))
       ELSE Min(Scale, rhythmicStrength)

\* an analyzeRhythm that tests beatHistory.length >= 4
analyzeRhythmFromFour(bass, mid, bh) ==
  LET rhythmicStrength == Max(Mul(bass, 1200), Mul(mid, 800))
  IN IF Len(bh) >= 4
       THEN Mul(rhythmicStrength, Scale + Mul(calculateConsistency(LastN(bh, 4)), 500))
       ELSE rhythmicStrength

analyzeRhythm(bass, mid, bh) ==
  LET rhythmicStrength == Max(Mul(bass, 1200), Mul(mid, 800))
  IN IF Len(bh) > 4
       THEN Mul(rhythmicStrength, Scale + Mul(calculateConsistency(LastN(bh, 4)), 500))
       ELSE rhythmicStrength

\* an analyzeMelody without Math.min(1, ...)
analyzeMelodyUnclamped(mid, treble, prev) ==
  LET melodicContent == Mul(mid, 600) + Mul(treble, 800)
  IN IF prev # <<>>
       THEN LET movement == Abs(melodicContent
                              - (Mul(prev[1].mid, 600) + Mul(prev[1].treble, 800)))
            IN melodicContent + Mul(movement, 300)
       ELSE melodicContent

analyzeMelody(mid, treble, prev) ==
  LET melodicContent == Mul(mid, 600) + Mul(treble, 800)
  IN IF prev # <<>>
       THEN LET movement == Abs(melodicContent
                              - (Mul(prev[1].mid, 600) + Mul(prev[1].treble, 800)))
            IN Min(Scale, melodicContent + Mul(movement, 300))
       ELSE melodicContent

\* a calculateCorrelation that takes two constant segments as perfectly correlated
calculateCorrelationOfConstants(arr1, arr2) ==
  IF Len(arr1) # Len(arr2) THEN 0
  ELSE LET n == Len(arr1)
           numerator == n * SumProd(arr1, arr2) - Sum(arr1) * Sum(arr2)
           denominator1 == n * SumSq(arr1) - Sum(arr1) * Sum(arr1)
           denominator2 == n * SumSq(arr2) - Sum(arr2) * Sum(arr2)
           denominator == ISqrt(denominator1 * denominator2)
       IN IF denominator = 0 THEN Scale ELSE (numerator * Scale) \div denominator

calculateCorrelation(arr1, arr2) ==
  IF Len(arr1) # Len(arr2) THEN 0
  ELSE LET n == Len(arr1)
           \* n * Sum(diff1 * diff2), n * Sum(diff1^2), n * Sum(diff2^2)
           numerator == n * SumProd(arr1, arr2) - Sum(arr1) * Sum(arr2)
           denominator1 == n * SumSq(arr1) - Sum(arr1) * Sum(arr1)
           denominator2 == n * SumSq(arr2) - Sum(arr2) * Sum(arr2)
           denominator == ISqrt(denominator1 * denominator2)
       IN IF denominator = 0 THEN 0 ELSE (numerator * Scale) \div denominator

analyzeHarmony(audioData) ==
  LET segments == 8
      segmentSize == Len(audioData) \div segments
      correlation(i) ==
        calculateCorrelation(Slice(audioData, i * segmentSize, (i + 1) * segmentSize),
                             Slice(audioData, (i + 1) * segmentSize, (i + 2) * segmentSize))
      harmonyScore == correlation(0) + correlation(1) + correlation(2) + correlation(3)
                      + correlation(4) + correlation(5) + correlation(6)
  IN harmonyScore \div (segments - 1)

analyzeDynamics(audioData) ==
  LET n == Len(audioData)
      \* n^2 * variance, in squared eighths
      dev == n * SumSq(audioData) - Sum(audioData) * Sum(audioData)
      \* sqrt(variance) in thousandths: 125 * sqrt(dev) / n
      deviation == (ISqrt(dev * 625) * 5) \div n
  IN Min(Scale, deviation * 2)

calculateEnergy(audioData) ==
  \* rms in thousandths: 125 * sqrt(SumSq / n)
  LET rms == ISqrt((SumSq(audioData) * 15625) \div Len(audioData))
  IN Min(Scale, rms * 2)

\* an estimateTempo called after the tick's own rhythm was pushed
estimateTempoAfterPush(rhythm, bh) ==
  IF Len(bh) + 1 < 8 THEN 120 * Scale
  ELSE LET recentBeats == LastN(Append(bh, rhythm), 8)
           avgBeatStrength == Sum(recentBeats) \div Len(recentBeats)
       IN 60 * Scale + avgBeatStrength * 120

estimateTempo(rhythm, bh) ==
  IF Len(bh) < 8 THEN 120 * Scale
  ELSE LET recentBeats == LastN(bh, 8)
           avgBeatStrength == Sum(recentBeats) \div Len(recentBeats)
       IN 60 * Scale + avgBeatStrength * 120

\* a determineMood that tests for dramatic before energetic
determineMoodDramaticFirst(energy, harmony, dynamics) ==
  IF energy < 300 /\ harmony > 600 THEN "calm"
  ELSE IF harmony < 400 /\ dynamics > 600 THEN "dramatic"
  ELSE IF energy > 700 /\ dynamics > 500 THEN "energetic"
  ELSE IF energy < 500 /\ harmony < 500 THEN "mysterious"
  ELSE "joyful"

determineMood(energy, harmony, dynamics) ==
  IF energy < 300 /\ harmony > 600 THEN "calm"
  ELSE IF energy > 700 /\ dynamics > 500 THEN "energetic"
  ELSE IF harmony < 400 /\ dynamics > 600 THEN "dramatic"
  ELSE IF energy < 500 /\ harmony < 500 THEN "mysterious"
  ELSE "joyful"

\* a detectBeatDrop that looks at the bass increase only
detectBeatDropBassOnly(features, prev) ==
  IF prev = <<>> THEN FALSE
  ELSE features.bass - prev[1].bass > 300

detectBeatDrop(features, prev) ==
  IF prev = <<>> THEN FALSE
  ELSE LET bassIncrease == features.bass - prev[1].bass
           energyIncrease == features.energy - prev[1].energy
       IN bassIncrease > 300 /\ energyIncrease > 200

detectVocalPresence(audioData) ==
  LET vocalLow == Slice(audioData, 8, 24)
      vocalHigh == Slice(audioData, 80, 120)
      vocalScore == (Mean(vocalLow) + Mean(vocalHigh)) \div 2
  IN vocalScore > 400

calculateInstrumentalDensity(audioData) ==
  LET nonZeroFreqs ==
        Cardinality({i \in 1..Len(audioData) : audioData[i] * Scale > 100 * SampleScale})
  IN (nonZeroFreqs * Scale) \div Len(audioData)

\* a detectGenre that tests for rock before electronic and for ambient
\* before classical
detectGenreReordered(features) ==
  IF features.rhythm > 600 /\ features.bass > 500 THEN "rock"
  ELSE IF features.bass > 700 /\ features.energy > 600 THEN "electronic"
  ELSE IF features.energy < 300 /\ features.harmony > 500 THEN "ambient"
  ELSE IF features.harmony > 700 /\ features.energy < 400 THEN "classical"
  ELSE IF features.mid > 600 /\ features.melody > 500 THEN "voice"
  ELSE "acoustic"

detectGenre(features) ==
  IF features.bass > 700 /\ features.energy > 600 THEN "electronic"
  ELSE IF features.harmony > 700 /\ features.energy < 400 THEN "classical"
  ELSE IF features.rhythm > 600 /\ features.bass > 500 THEN "rock"
  ELSE IF features.energy < 300 /\ features.harmony > 500 THEN "ambient"
  ELSE IF features.mid > 600 /\ features.melody > 500 THEN "voice"
  ELSE "acoustic"

analyzeContext(features, audioData, prev) ==
  [beatDrop |-> detectBeatDrop(features, prev),
   vocalPresence |-> detectVocalPresence(audioData),
   instrumentalDensity |-> calculateInstrumentalDensity(audioData),
   \* (energy + dynamics + harmony) / 3, in thirds of a thousandth
   emotionalIntensity |-> features.energy + features.dynamics + features.harmony,
   genreHint |-> detectGenre(features)]

\* the features computed by analyzeAudio (lines 37-61)
extractFeatures(audioData, prev, bh) ==
  LET bass == extractBass(audioData)
      mid == extractMid(audioData)
      treble == extractTreble(audioData)
      rhythm == analyzeRhythm(bass, mid, bh)
      melody == analyzeMelody(mid, treble, prev)
      harmony == analyzeHarmony(audioData)
      dynamics == analyzeDynamics(audioData)
      energy == calculateEnergy(audioData)
      tempo == estimateTempo(rhythm, bh)
      mood == determineMood(energy, harmony, dynamics)
  IN [bass |-> bass, mid |-> mid, treble |-> treble, rhythm |-> rhythm,
      melody |-> melody, harmony |-> harmony, dynamics |-> dynamics,
      energy |-> energy, tempo |-> tempo, mood |-> mood]

\* range.reduce((sum, val) => sum + val, 0) / range.length for a slice of any
\* length: 0 / 0 is NaN
MeanOf(s) == IF Len(s) = 0 THEN NaN ELSE Num(Mean(s))

\* the quantities analyzeAudio computes from slices of a frame of any length
\* (lines 72-85, 131-143, 189-206), each a number or NaN: the three band
\* means, the two vocal-band means, Math.min(1, Math.sqrt(variance) * 2),
\* Math.min(1, rms * 2) and the density; Math.sqrt and Math.min of NaN are NaN
sliceStatistics(audioData) ==
  [bass |-> MeanOf(Slice(audioData, 0, 32)),
   mid |-> MeanOf(Slice(audioData, 32, 96)),
   treble |-> MeanOf(Slice(audioData, 96, Len(audioData))),
   vocalLow |-> MeanOf(Slice(audioData, 8, 24)),
   vocalHigh |-> MeanOf(Slice(audioData, 80, 120)),
   dynamics |-> IF Len(audioData) = 0 THEN NaN ELSE Num(analyzeDynamics(audioData)),
   energy |-> IF Len(audioData) = 0 THEN NaN ELSE Num(calculateEnergy(audioData)),
   instrumentalDensity |-> IF Len(audioData) = 0 THEN NaN
                           ELSE Num(calculateInstrumentalDensity(audioData))]

\* a push followed by a pop() when the length exceeds cap: the entry just
\* pushed is the one that goes
pushDroppingNewest(history, value, cap) ==
  LET pushed == Append(history, value)
  IN IF Len(pushed) > cap THEN SubSeq(pushed, 1, Len(pushed) - 1) ELSE pushed

\* Array.prototype.push followed by a shift() when the length exceeds cap
pushCapped(history, value, cap) ==
  LET pushed == Append(history, value)
  IN IF Len(pushed) > cap THEN Tail(pushed) ELSE pushed

\* MusicBrain.updateHistory: the two histories it leaves behind
updateHistory(bh, eh, rhythm, energy) ==
  [beatHistory |-> pushCapped(bh, rhythm, HistoryCap),
   energyHistory |-> pushCapped(eh, energy, HistoryCap)]

\* an analyzeAudio that stores previousFeatures before it classifies the context
analyzeAudioStoringFirst(features, audioData, prev, bh, eh, t) ==
  [features |-> features,
   context |-> analyzeContext(features, audioData, <<features>>),
   previousFeatures |-> <<features>>,
   beatHistory |-> updateHistory(bh, eh, features.rhythm, features.energy).beatHistory,
   energyHistory |-> updateHistory(bh, eh, features.rhythm, features.energy).energyHistory,
   time |-> t + 1]

\* analyzeAudio from line 63 on, features being the record built in lines 51-61:
\* the returned {features, context} and the fields it leaves behind
analyzeAudioWith(features, audioData, prev, bh, eh, t) ==
  [features |-> features,
   context |-> analyzeContext(features, audioData, prev),
   previousFeatures |-> <<features>>,
   beatHistory |-> updateHistory(bh, eh, features.rhythm, features.energy).beatHistory,
   energyHistory |-> updateHistory(bh, eh, features.rhythm, features.energy).energyHistory,
   time |-> t + 1]

analyzeAudio(audioData, prev, bh, eh, t) ==
  analyzeAudioWith(extractFeatures(audioData, prev, bh), audioData, prev, bh, eh, t)

-----------------------------------------------------------------------------
(* ColorBrain (musicBrain.ts 283-558).  A color string                     *)
(* `hsl(${h}, ${s}%, ${l}%)` is the record [h, s, l] of the three numbers  *)
(* that were formatted into it (thousandths); a number prints as a run of  *)
(* decimal digits exactly when it is a non-negative integer.  r is the     *)
(* value Math.random() returns (thousandths, 0 <= r < 1000).               *)

PaletteCap == 10
DefaultTransitionSpeed == 100

hsl(h, s, l) == [h |-> h, s |-> s, l |-> l]

\* does the text of number x match \d+ followed by the next literal of the pattern
PrintsAsDigits(x) == x >= 0 /\ x % Scale = 0

parseHSL(hslString) ==
  IF PrintsAsDigits(hslString.h) /\ PrintsAsDigits(hslString.s) /\ PrintsAsDigits(hslString.l)
    THEN hslString
    ELSE hsl(0, 0, 0)

analyzeMood(features, context) ==
  LET temperature0 == IF features.bass > 600 \/ context.genreHint = "electronic"
                        THEN "cool" ELSE "neutral"
      temperature1 == IF features.harmony > 600 \/ context.genreHint = "acoustic"
                        THEN "warm" ELSE temperature0
      temperature == IF features.mood = "mysterious" \/ features.mood = "dramatic"
                        THEN "cool" ELSE temperature1
  IN [temperature |-> temperature,
      saturation |-> Min(100 * Scale, 40 * Scale + features.energy * 60 + features.dynamics * 30),
      brightness |-> Min(100 * Scale, 30 * Scale + features.treble * 40
                                       + context.emotionalIntensity * 10),
      contrast |-> Min(100 * Scale, 20 * Scale + features.dynamics * 50 + features.energy * 30)]

generateParticleColors(baseHue, saturation, lightness, features, r) ==
  LET particleCount == (3 * Scale + features.energy * 5) \div Scale
      particle(i) ==
        LET hueShift == ((360 * Scale) \div particleCount) * i
            particleHue == JsMod(baseHue + hueShift, 360 * Scale)
            particleSat == saturation + (r.sat - 500) * 30
            particleLight == lightness + (r.light - 500) * 40
        IN hsl(particleHue,
               Max(0, Min(100 * Scale, particleSat)),
               Max(10 * Scale, Min(90 * Scale, particleLight)))
  IN [k \in 1..particleCount |-> particle(k - 1)]

createBasePalette(features, context, mood, r) ==
  LET genreHue ==
        CASE context.genreHint = "electronic" -> 240 * Scale + features.bass * 60
          [] context.genreHint = "acoustic" -> 30 * Scale + features.harmony * 60
          [] context.genreHint = "classical" -> 200 * Scale + features.harmony * 80
          [] context.genreHint = "rock" -> features.energy * 60
          [] context.genreHint = "ambient" -> 180 * Scale + features.mid * 120
          [] context.genreHint = "voice" ->
               IF context.vocalPresence THEN 45 * Scale + context.emotionalIntensity * 30
                                        ELSE 200 * Scale
          [] OTHER -> features.bass * 120 + features.treble * 240
      baseHue == JsMod(genreHue, 360 * Scale)
      primaryHue == baseHue
      secondaryHue == JsMod(baseHue + 120 * Scale, 360 * Scale)
      accentHue == JsMod(baseHue + 240 * Scale, 360 * Scale)
      backgroundHue == JsMod(baseHue + 180 * Scale, 360 * Scale)
      saturation == mood.saturation
      lightness == mood.brightness
  IN [primary |-> hsl(primaryHue, saturation, lightness),
      secondary |-> hsl(secondaryHue, Mul(saturation, 800), Mul(lightness, 900)),
      accent |-> hsl(accentHue, Mul(saturation, 1200), Mul(lightness, 1100)),
      background |-> hsl(backgroundHue, Mul(saturation, 300), Mul(lightness, 200)),
      glow |-> hsl(primaryHue, Mul(saturation, 1500), Mul(lightness, 1300)),
      particles |-> generateParticleColors(baseHue, saturation, lightness, features, r)]

MapColors(f(_), colors) == [k \in 1..Len(colors) |-> f(colors[k])]

intensifyPalette(palette, factor) ==
  LET intensify(color) ==
        LET c == parseHSL(color)
        IN hsl(c.h, Min(100 * Scale, Mul(c.s, factor)), Min(90 * Scale, Mul(c.l, factor)))
  IN [palette EXCEPT !.primary = intensify(palette.primary),
                     !.accent = intensify(palette.accent),
                     !.glow = intensify(palette.glow),
                     !.particles = MapColors(intensify, palette.particles)]

shiftTowardsWarmth(hue, amount) ==
  LET pick(closest, warmHue) ==
        IF Abs(hue - warmHue) < Abs(hue - closest) THEN warmHue ELSE closest
      closestWarmHue == pick(pick(0, 30 * Scale), 60 * Scale)
      shift == Mul(closestWarmHue - hue, amount)
  IN JsMod(hue + shift + 360 * Scale, 360 * Scale)

addWarmth(palette, amount) ==
  LET warmify(color) ==
        LET c == parseHSL(color)
        IN hsl(shiftTowardsWarmth(c.h, amount), c.s, c.l)
  IN [palette EXCEPT !.primary = warmify(palette.primary),
                     !.secondary = warmify(palette.secondary),
                     !.glow = warmify(palette.glow)]

addComplexity(particles, r) ==
  LET additionalCount == Min(5, Len(particles) \div 2)
      variation(i) ==
        LET c == parseHSL(particles[(i % Len(particles)) + 1])
        IN hsl(JsMod(c.h + (r.hue - 500) * 60, 360 * Scale), c.s, c.l)
  IN particles \o [k \in 1..additionalCount |-> variation(k - 1)]

adjustSaturation(palette, intensity) ==
  LET adjust(color) ==
        LET c == parseHSL(color)
        \* intensity is in thirds of a thousandth: intensity * 0.5 = intensity / 6
        IN hsl(c.h, Min(100 * Scale, Mul(c.s, Scale + intensity \div 6)), c.l)
  IN [palette EXCEPT !.primary = adjust(palette.primary),
                     !.secondary = adjust(palette.secondary),
                     !.accent = adjust(palette.accent),
                     !.particles = MapColors(adjust, palette.particles)]

refineForContext(palette, context, r) ==
  LET p1 == IF context.beatDrop THEN intensifyPalette(palette, 1500) ELSE palette
      p2 == IF context.vocalPresence THEN addWarmth(p1, 300) ELSE p1
      p3 == IF context.instrumentalDensity > 700
              THEN [p2 EXCEPT !.particles = addComplexity(p2.particles, r)] ELSE p2
  IN IF context.emotionalIntensity > 3 * 800
       THEN adjustSaturation(p3, context.emotionalIntensity) ELSE p3

\* the const diff of interpolateHue (line 527)
hueDifference(h1, h2) == JsMod(h2 - h1 + 180 * Scale, 360 * Scale) - 180 * Scale

interpolateHue(h1, h2, t) ==
  JsMod(h1 + Mul(hueDifference(h1, h2), t) + 360 * Scale, 360 * Scale)

\* a smoothTransition that maps over the particles of the last palette
smoothOverLastParticles(newPalette, history, speed) ==
  IF Len(history) = 0 THEN newPalette
  ELSE LET lastPalette == history[Len(history)]
           blend(color1, color2) ==
             LET hsl1 == parseHSL(color1)
                 hsl2 == parseHSL(color2)
             IN hsl(interpolateHue(hsl1.h, hsl2.h, speed),
                    hsl1.s + Mul(hsl2.s - hsl1.s, speed),
                    hsl1.l + Mul(hsl2.l - hsl1.l, speed))
       IN [primary |-> blend(lastPalette.primary, newPalette.primary),
           secondary |-> blend(lastPalette.secondary, newPalette.secondary),
           accent |-> blend(lastPalette.accent, newPalette.accent),
           background |-> blend(lastPalette.background, newPalette.background),
           glow |-> blend(lastPalette.glow, newPalette.glow),
           particles |-> [i \in 1..Len(lastPalette.particles) |->
                            IF i <= Len(newPalette.particles)
                              THEN blend(lastPalette.particles[i], newPalette.particles[i])
                              ELSE lastPalette.particles[i]]]

\* a smoothTransition that blends from the oldest palette of the history
smoothTransitionFromOldest(newPalette, history, speed) ==
  IF Len(history) = 0 THEN newPalette
  ELSE LET lastPalette == history[1]
           blend(color1, color2) ==
             LET hsl1 == parseHSL(color1)
                 hsl2 == parseHSL(color2)
             IN hsl(interpolateHue(hsl1.h, hsl2.h, speed),
                    hsl1.s + Mul(hsl2.s - hsl1.s, speed),
                    hsl1.l + Mul(hsl2.l - hsl1.l, speed))
       IN [primary |-> blend(lastPalette.primary, newPalette.primary),
           secondary |-> blend(lastPalette.secondary, newPalette.secondary),
           accent |-> blend(lastPalette.accent, newPalette.accent),
           background |-> blend(lastPalette.background, newPalette.background),
           glow |-> blend(lastPalette.glow, newPalette.glow),
           particles |-> [i \in 1..Len(newPalette.particles) |->
                            IF i <= Len(lastPalette.particles)
                              THEN blend(lastPalette.particles[i], newPalette.particles[i])
                              ELSE newPalette.particles[i]]]

smoothTransition(newPalette, history, speed) ==
  IF Len(history) = 0 THEN newPalette
  ELSE LET lastPalette == history[Len(history)]
           blend(color1, color2) ==
             LET hsl1 == parseHSL(color1)
                 hsl2 == parseHSL(color2)
             IN hsl(interpolateHue(hsl1.h, hsl2.h, speed),
                    hsl1.s + Mul(hsl2.s - hsl1.s, speed),
                    hsl1.l + Mul(hsl2.l - hsl1.l, speed))
       IN [primary |-> blend(lastPalette.primary, newPalette.primary),
           secondary |-> blend(lastPalette.secondary, newPalette.secondary),
           accent |-> blend(lastPalette.accent, newPalette.accent),
           background |-> blend(lastPalette.background, newPalette.background),
           glow |-> blend(lastPalette.glow, newPalette.glow),
           particles |-> [i \in 1..Len(newPalette.particles) |->
                            IF i <= Len(lastPalette.particles)
                              THEN blend(lastPalette.particles[i], newPalette.particles[i])
                              ELSE newPalette.particles[i]]]

\* ColorBrain.updateHistory: the colorHistory it leaves behind
updatePaletteHistory(history, palette) == pushCapped(history, palette, PaletteCap)

\* the palette before smoothing (generatePalette lines 288-290)
refinedPalette(features, context, r) ==
  refineForContext(createBasePalette(features, context, analyzeMood(features, context), r),
                   context, r)

\* generatePalette: the returned palette and the colorHistory it leaves behind
generatePalette(features, context, history, speed, r) ==
  LET finalPalette == smoothTransition(refinedPalette(features, context, r), history, speed)
  IN [palette |-> finalPalette,
      colorHistory |-> updatePaletteHistory(history, finalPalette)]

-----------------------------------------------------------------------------
(* State *)

\* the first four are the MusicBrain fields (musicBrainRef.current)
VARIABLES previousFeatures, beatHistory, energyHistory, time,
  \* ColorBrain fields (colorBrainRef.current)
  colorHistory, transitionSpeed,
  \* the arguments and results of the latest analyzeAudio / generatePalette
  \* pair: <<>> before the first one, else <<[newData, r, analysis, palette]>>
  lastTick,
  \* is the AudioVisualizer mounted
  mounted,
  \* the committed render: the props isPlaying, intensity, mode and the four
  \* useState values
  view,
  \* setState calls not yet rendered
  queued,
  \* effects of the committed render that have not run yet
  effectsPending,
  \* registered setInterval timers [id, intensity, mode] and the id held by
  \* the analysis effect's cleanup (0: none)
  intervals, intervalId,
  \* pending requestAnimationFrame callbacks [id, closure], animationRef.current
  \* (0: undefined)
  rafPending, animationRef,
  \* is resizeCanvas registered on window; the canvas element's layout box and
  \* its backing-store size
  resizeListener, rect, canvas,
  \* what the latest animate call put on the canvas
  drawn,
  \* the number of host events so far
  uiEvents,
  \* the frames a direct caller of the two classes feeds them, in a cycle
  stream,
  \* the latest direct call of a single method by a caller: <<>> before the
  \* first one, else <<[method, arguments, result]>>
  call,
  \* the sensitivity state of the page (Index.tsx line 16), in thousandths
  sensitivity

brainVars == <<previousFeatures, beatHistory, energyHistory, time,
               colorHistory, transitionSpeed, lastTick>>

componentVars == <<mounted, view, queued, effectsPending, intervals, intervalId,
                   rafPending, animationRef, resizeListener, rect, canvas, drawn,
                   uiEvents>>

vars == <<brainVars, componentVars, stream, call, sensitivity>>

\* new MusicBrain(), new ColorBrain()
InitBrains ==
  /\ previousFeatures = <<>>
  /\ beatHistory = <<>>
  /\ energyHistory = <<>>
  /\ time = 0
  /\ colorHistory = <<>>
  /\ transitionSpeed = DefaultTransitionSpeed
  /\ lastTick = <<>>

\* analyzeAudio(newData) followed by generatePalette(features, context), as in
\* simulateIntelligentAudio lines 95-100: what the two calls return and the
\* fields they leave behind; r holds the Math.random() draws
pipelineWith(analysis, generated) ==
  [analysis |-> [features |-> analysis.features, context |-> analysis.context],
   palette |-> generated.palette,
   previousFeatures |-> analysis.previousFeatures,
   beatHistory |-> analysis.beatHistory,
   energyHistory |-> analysis.energyHistory,
   time |-> analysis.time,
   colorHistory |-> generated.colorHistory]

generateFor(analysis, history, speed, r) ==
  pipelineWith(analysis, generatePalette(analysis.features, analysis.context, history, speed, r))

pipeline(newData, r, prev, bh, eh, t, history, speed) ==
  generateFor(analyzeAudio(newData, prev, bh, eh, t), history, speed, r)

\* the brains and lastTick after a run of the pipeline with result run
StoreRun(newData, r, run) ==
  /\ previousFeatures' = run.previousFeatures
  /\ beatHistory' = run.beatHistory
  /\ energyHistory' = run.energyHistory
  /\ time' = run.time
  /\ colorHistory' = run.colorHistory
  /\ transitionSpeed' = transitionSpeed
  /\ lastTick' = <<[newData |-> newData, r |-> r,
                    analysis |-> run.analysis, palette |-> run.palette]>>

-----------------------------------------------------------------------------
(* Inputs *)

\* Math.random() draws of one tick: particle saturation and lightness jitter,
\* addComplexity hue jitter, and the frame simulation's noise (the draws of
\* one kind within a tick are taken equal)
MidDraws == [sat |-> 500, light |-> 500, hue |-> 500, wave |-> 500]
EdgeDraws == [sat |-> 0, light |-> 999, hue |-> 0, wave |-> 950]
Randoms == {MidDraws, EdgeDraws}

\* frames handed to analyzeAudio directly (samples in eighths)
Uniform(v) == [i \in 1..FrameLength |-> v]
BassOnly(v) == [i \in 1..FrameLength |-> IF i <= 32 THEN v ELSE 0]
\* the same on/off pattern in every 16-sample segment
Comb(v) == [i \in 1..FrameLength |-> IF i % 2 = 0 THEN v ELSE 0]
\* the pattern inverted in every other segment
CombFlipped(v) ==
  [i \in 1..FrameLength |-> IF (i + ((i - 1) \div 16)) % 2 = 0 THEN v ELSE 0]

\* on these frames the fixed-point results agree with the doubles of the
\* program on which printed numbers are integers
TestFrames ==
  {Uniform(0), Uniform(3), Uniform(8), BassOnly(5), BassOnly(8), Comb(1),
   CombFlipped(4)}

-----------------------------------------------------------------------------
(* The simulated spectrum (AudioVisualizer.tsx 28-90).  Angles are counted  *)
(* in steps of 2*pi/Turn, the spacing of baseFreq; now is Date.now() *      *)
(* 0.001 in thousandths of a second.                                       *)

Modes == {"sacred", "cosmic", "flow", "pulse", "trippy", "ocean", "neural", "galaxy"}

Turn == 128
TwoPi == 6283

\* sin(2 * pi * k / Turn) for k = 0 .. Turn / 4, in thousandths
SinQ ==
  <<0, 49, 98, 146, 195, 242, 290, 336, 382, 427, 471, 514, 555, 595, 634, 671, 707,
    740, 773, 803, 831, 857, 881, 903, 923, 941, 956, 970, 980, 989, 995, 998, 1000>>

\* Math.sin of an angle given in steps
Sin(a) ==
  LET k == a % Turn
      q == Turn \div 4
  IN IF k <= q THEN SinQ[k + 1]
     ELSE IF k <= 2 * q THEN SinQ[2 * q - k + 1]
     ELSE IF k <= 3 * q THEN 0 - SinQ[k - 2 * q + 1]
     ELSE 0 - SinQ[Turn - k + 1]

\* Math.cos of an angle given in steps
Cos(a) == Sin(a + Turn \div 4)

\* an angle in thousandths of a radian, in steps
Steps(x) == (x * Turn) \div TwoPi

\* newData of simulateIntelligentAudio: the amplitude of each bin by mode,
\* scaled by intensity and cut off at 0, in eighths
simulateFrame(mode, intensity, now, r) ==
  LET amplitude(i) ==
        CASE mode = "sacred" ->
               LET a == Mul(Mul(Sin(Steps(Mul(now, 1200)) + i), Sin(Steps(Mul(now, 300)))), 700)
               IN IF i % 12 = 0 THEN Mul(a, 1500) ELSE a
          [] mode = "cosmic" ->
               Mul(Mul(Sin(Steps(Mul(now, 800)) + (i * 3) \div 2), Cos(Steps(Mul(now, 200)))), 600)
               + Mul(r.wave, 100)
          [] mode = "flow" ->
               Mul(Mul(Sin(Steps(now) + i), Sin(Steps(Mul(now, 400)))), 500)
          [] mode = "pulse" ->
               LET a == Mul(Mul(Sin(Steps(Mul(now, 2000)) + i), Sin(Steps(Mul(now, 600)))), 800)
               IN IF ((now * 2) \div Scale) % 2 = 0 THEN Mul(a, 1300) ELSE a
          [] mode = "trippy" ->
               Mul(Mul(Sin(Steps(Mul(now, 1700)) + 3 * i), Cos(Steps(Mul(now, 700)))), 900)
               + Mul(Sin(Steps(now * 4 + i * 100)), 200)
          [] mode = "ocean" ->
               Mul(Mul(Sin(Steps(Mul(now, 500)) + (i * 4) \div 5), Sin(Steps(Mul(now, 100)))), 400)
               + Mul(Sin(Steps(Mul(now, 300)) + 2 * i), 200)
          [] mode = "neural" ->
               LET a == Mul(Sin(Steps(Mul(now, 1500)) + 2 * i), 600)
               IN IF r.wave > 900 THEN a * 2 ELSE a
          [] mode = "galaxy" ->
               Mul(Mul(Sin(Steps(Mul(now, 700)) + (i * 6) \div 5), Cos(Steps(Mul(now, 150)))), 700)
               + Mul(Sin(Steps(now * 3) + i \div 2), 300)
          [] OTHER -> Mul(Sin(Steps(now) + i), 500)
  IN [k \in 1..FrameLength |->
        Max(0, (Mul(amplitude(k - 1), intensity) * SampleScale) \div Scale)]

-----------------------------------------------------------------------------
(* The AudioVisualizer component (AudioVisualizer.tsx 13-188) under its     *)
(* host page (Index.tsx).  The handlers of the page, the interval timer,   *)
(* the animation-frame callback and React's render and effect passes run   *)
(* one at a time, each to completion.  The arrays and objects that the     *)
(* useState cells, the closures and the canvas refer to are named by the   *)
(* tick that created them (0: the initial value); lastTick holds the       *)
(* contents of the latest ones.                                            *)

MaxTicks == 2
MaxUiEvents == 2

\* the values the model lets the intensity slider and the mode buttons
\* take, and the clock readings and draws it lets a tick see
Intensities == {1000, 2000}
ModesPicked == {"sacred", "neural"}
TickInputs == {[now |-> 2000, r |-> MidDraws], [now |-> 4500, r |-> EdgeDraws]}

\* layout boxes of the canvas element, window.devicePixelRatio, and the
\* backing store of a canvas element that was never sized
Rects == {[width |-> 800, height |-> 600], [width |-> 1024, height |-> 768]}
InitialRect == [width |-> 800, height |-> 600]
DevicePixelRatio == 2
DefaultCanvas == [width |-> 300, height |-> 150]

\* useState(0.8) of the page, and the values the model lets the
\* sensitivity slider take
InitialSensitivity == 800
Sensitivities == {500, 800}

NoUpdates ==
  [audioData |-> <<>>, audioFeatures |-> <<>>, musicContext |-> <<>>, currentPalette |-> <<>>]

\* the useState initial values (lines 19-22) under the props the page passes
InitialView ==
  [isPlaying |-> TRUE, intensity |-> 1000, mode |-> "sacred",
   audioData |-> 0, currentPalette |-> 0, audioFeatures |-> 0, musicContext |-> 0]

\* setCurrentPalette called with the palette of the tick before
setStatesLatePalette(tick) ==
  [audioData |-> <<tick>>, audioFeatures |-> <<tick>>, musicContext |-> <<tick>>,
   currentPalette |-> <<tick - 1>>]

\* the setState calls of tick number tick: setAudioData(newData),
\* setAudioFeatures(analysis.features), setMusicContext(analysis.context),
\* setCurrentPalette(palette) (lines 92-101)
setStates(tick) ==
  [audioData |-> <<tick>>, audioFeatures |-> <<tick>>, musicContext |-> <<tick>>,
   currentPalette |-> <<tick>>]

\* a later setState of the same state replaces an earlier one not yet rendered
enqueue(pending, updates) ==
  [f \in DOMAIN pending |-> IF updates[f] # <<>> THEN updates[f] ELSE pending[f]]

\* the smallest id a timer or animation-frame request can get
RECURSIVE FreshFrom(_, _)
FreshFrom(used, n) == IF n \in used THEN FreshFrom(used, n + 1) ELSE n
FreshId(used) == FreshFrom(used, 1)

Ids(requests) == {requests[k].id : k \in 1..Len(requests)}

\* clearInterval(id), cancelAnimationFrame(id)
Without(requests, id) ==
  LET keep(x) == x.id # id
  IN SelectSeq(requests, keep)

\* the component function run with the given props: the render sees the
\* queued state updates applied, and leaves the effects whose dependencies
\* changed (lines 106, 126, 188) to run
renderComponent(isPlaying, intensity, mode) ==
  LET state(f) == IF queued[f] = <<>> THEN view[f] ELSE queued[f][1]
      next == [isPlaying |-> isPlaying, intensity |-> intensity, mode |-> mode,
               audioData |-> state("audioData"),
               currentPalette |-> state("currentPalette"),
               audioFeatures |-> state("audioFeatures"),
               musicContext |-> state("musicContext")]
      changed(deps) == \E d \in deps : next[d] # view[d]
  IN [view |-> next,
      effects |->
        (IF changed({"isPlaying", "intensity", "mode", "audioData"})
           THEN {"analysis"} ELSE {})
        \cup (IF changed({"isPlaying", "audioData", "mode"}) THEN {"render"} ELSE {})]

\* resizeCanvas (lines 114-119)
resizeCanvas(box) ==
  [width |-> box.width * DevicePixelRatio, height |-> box.height * DevicePixelRatio]

\* animate (lines 135-179): what one call leaves on the canvas, by the values
\* its closure holds; a scene is named by its mode and by the ticks that made
\* the frame, the features and the palette it was drawn from
animate(closure) ==
  IF ~closure.isPlaying
    THEN [kind |-> "cleared", mode |-> "", audioData |-> 0, audioFeatures |-> 0,
          currentPalette |-> 0]
    ELSE [kind |-> "scene", mode |-> closure.mode,
          audioData |-> closure.audioData,
          audioFeatures |-> closure.audioFeatures,
          currentPalette |-> closure.currentPalette]

\* the first render of a mounted component, before its effects have run
Init ==
  /\ InitBrains
  /\ mounted = TRUE
  /\ view = InitialView
  /\ queued = NoUpdates
  /\ effectsPending = {"analysis", "resize", "render"}
  /\ intervals = <<>>
  /\ intervalId = 0
  /\ rafPending = <<>>
  /\ animationRef = 0
  /\ resizeListener = FALSE
  /\ rect = InitialRect
  /\ canvas = DefaultCanvas
  /\ drawn = [kind |-> "none", mode |-> "", audioData |-> 0, audioFeatures |-> 0,
              currentPalette |-> 0]
  /\ uiEvents = 0
  /\ stream = <<>>
  /\ call = <<>>
  /\ sensitivity = InitialSensitivity

\* the body of simulateIntelligentAudio after newData is computed
\* (lines 92-101), run being what the two brains return and keep
TickRun(newData, r, run) ==
  /\ StoreRun(newData, r, run)
  /\ queued' = enqueue(queued, setStates(run.time))

\* simulateIntelligentAudio with the intensity and mode of its closure
simulateIntelligentAudio(closure, now, r) ==
  TickRun(simulateFrame(closure.mode, closure.intensity, now, r), r,
          pipeline(simulateFrame(closure.mode, closure.intensity, now, r), r,
                   previousFeatures, beatHistory, energyHistory, time, colorHistory,
                   transitionSpeed))

\* a timer that fires only once the frame of the tick before has been drawn
TickReadyAfterDraw(k) ==
  /\ k \in 1..Len(intervals)
  /\ time < MaxTicks
  /\ time = 0 \/ (drawn.kind = "scene" /\ drawn.audioData = time)

\* setInterval(simulateIntelligentAudio, 50): the k-th registered timer fires
\* whenever it is registered, whatever else has run (the bound on ticks aside)
TickReady(k) ==
  /\ k \in 1..Len(intervals)
  /\ time < MaxTicks

\* a registered interval timer fires
AnalysisTick(k, now, r) ==
  /\ TickReady(k)
  /\ simulateIntelligentAudio(intervals[k], now, r)
  /\ UNCHANGED <<mounted, view, effectsPending, intervals, intervalId, rafPending,
                 animationRef, resizeListener, rect, canvas, drawn, uiEvents, stream, call, sensitivity>>

\* effects whose analysis effect returns no cleanup
runEffectsKeepingInterval(pending, v) ==
  /\ IF "analysis" \in pending
       THEN LET id == FreshId(Ids(intervals))
            IN IF v.isPlaying
                 THEN /\ intervals' = Append(intervals, [id |-> id, intensity |-> v.intensity,
                                                         mode |-> v.mode])
                      /\ intervalId' = id
                 ELSE /\ intervals' = intervals
                      /\ intervalId' = 0
       ELSE UNCHANGED <<intervals, intervalId>>
  /\ IF "resize" \in pending
       THEN /\ canvas' = resizeCanvas(rect)
            /\ resizeListener' = TRUE
       ELSE UNCHANGED <<canvas, resizeListener>>
  /\ IF "render" \in pending
       THEN LET cancelled == IF animationRef # 0 THEN Without(rafPending, animationRef)
                                                 ELSE rafPending
                id == FreshId(Ids(cancelled))
            IN /\ rafPending' = Append(cancelled, [id |-> id, closure |-> v])
               /\ animationRef' = id
       ELSE UNCHANGED <<rafPending, animationRef>>

\* the effects in pending run after a render that committed v: the cleanups
\* of their previous run first (clearInterval, cancelAnimationFrame), then
\* the effects
runEffects(pending, v) ==
  /\ IF "analysis" \in pending
       THEN LET cleared == IF intervalId # 0 THEN Without(intervals, intervalId)
                                              ELSE intervals
                id == FreshId(Ids(cleared))
            IN IF v.isPlaying
                 THEN /\ intervals' = Append(cleared, [id |-> id, intensity |-> v.intensity,
                                                       mode |-> v.mode])
                      /\ intervalId' = id
                 ELSE /\ intervals' = cleared
                      /\ intervalId' = 0
       ELSE UNCHANGED <<intervals, intervalId>>
  /\ IF "resize" \in pending
       THEN /\ canvas' = resizeCanvas(rect)
            /\ resizeListener' = TRUE
       ELSE UNCHANGED <<canvas, resizeListener>>
  /\ IF "render" \in pending
       THEN LET cancelled == IF animationRef # 0 THEN Without(rafPending, animationRef)
                                                 ELSE rafPending
                id == FreshId(Ids(cancelled))
            IN /\ rafPending' = Append(cancelled, [id |-> id, closure |-> v])
               /\ animationRef' = id
       ELSE UNCHANGED <<rafPending, animationRef>>

\* React renders the component again for the state updates a tick queued;
\* the effects of this render run later
Rerender ==
  /\ mounted
  /\ queued # NoUpdates
  /\ effectsPending = {}
  /\ view' = renderComponent(view.isPlaying, view.intensity, view.mode).view
  /\ effectsPending' = renderComponent(view.isPlaying, view.intensity, view.mode).effects
  /\ queued' = NoUpdates
  /\ UNCHANGED <<brainVars, mounted, intervals, intervalId, rafPending, animationRef,
                 resizeListener, rect, canvas, drawn, uiEvents, stream, call, sensitivity>>

\* the effects left by the latest render run
FlushEffects ==
  /\ mounted
  /\ effectsPending # {}
  /\ runEffects(effectsPending, view)
  /\ effectsPending' = {}
  /\ UNCHANGED <<brainVars, mounted, view, queued, rect, drawn, uiEvents, stream, call, sensitivity>>

\* the browser runs the oldest pending animation-frame callback: animate
\* draws and requests the next frame for itself
AnimationFrame ==
  /\ rafPending # <<>>
  /\ LET callback == Head(rafPending)
         id == FreshId(Ids(Tail(rafPending)))
     IN /\ drawn' = animate(callback.closure)
        /\ rafPending' = Append(Tail(rafPending), [id |-> id, closure |-> callback.closure])
        /\ animationRef' = id
  /\ UNCHANGED <<brainVars, mounted, view, queued, effectsPending, intervals, intervalId,
                 resizeListener, rect, canvas, uiEvents, stream, call, sensitivity>>

\* a render that constructs the two brains anew
HostRenderWithNewBrains(isPlaying, intensity, mode) ==
  /\ mounted
  /\ effectsPending = {}
  /\ uiEvents < MaxUiEvents
  /\ uiEvents' = uiEvents + 1
  /\ view' = renderComponent(isPlaying, intensity, mode).view
  /\ queued' = NoUpdates
  /\ runEffects(renderComponent(isPlaying, intensity, mode).effects,
                renderComponent(isPlaying, intensity, mode).view)
  /\ previousFeatures' = <<>>
  /\ beatHistory' = <<>>
  /\ energyHistory' = <<>>
  /\ time' = time
  /\ colorHistory' = <<>>
  /\ UNCHANGED <<transitionSpeed, lastTick, mounted, effectsPending, rect, drawn, stream, call, sensitivity>>

\* a click handler of the page sets state of the page: React renders the
\* page and the component with the new props and runs the effects of that
\* render before the handler's task ends
HostRender(isPlaying, intensity, mode) ==
  /\ mounted
  /\ effectsPending = {}
  /\ uiEvents < MaxUiEvents
  /\ uiEvents' = uiEvents + 1
  /\ view' = renderComponent(isPlaying, intensity, mode).view
  /\ queued' = NoUpdates
  /\ runEffects(renderComponent(isPlaying, intensity, mode).effects,
                renderComponent(isPlaying, intensity, mode).view)
  /\ UNCHANGED <<brainVars, mounted, effectsPending, rect, drawn, stream, call, sensitivity>>

\* a play button whose click makes the component construct its brains anew
handleTogglePlayWithNewBrains ==
  HostRenderWithNewBrains(~view.isPlaying, view.intensity, view.mode)

\* Index.tsx handleTogglePlay
handleTogglePlay == HostRender(~view.isPlaying, view.intensity, view.mode)

\* ControlPanel onModeChange = setVisualMode
setVisualMode(m) == m # view.mode /\ HostRender(view.isPlaying, view.intensity, m)

\* ControlPanel onIntensityChange
setIntensity(v) == v # view.intensity /\ HostRender(view.isPlaying, v, view.mode)

\* the window is resized: the layout box changes and the browser calls the
\* registered resize listener
WindowResize(box) ==
  /\ mounted
  /\ uiEvents < MaxUiEvents
  /\ box # rect
  /\ uiEvents' = uiEvents + 1
  /\ rect' = box
  /\ canvas' = IF resizeListener THEN resizeCanvas(box) ELSE canvas
  /\ UNCHANGED <<brainVars, mounted, view, queued, effectsPending, intervals, intervalId,
                 rafPending, animationRef, resizeListener, drawn, stream, call, sensitivity>>

\* an unmount whose analysis effect has no cleanup
UnmountKeepingInterval ==
  /\ mounted
  /\ effectsPending = {}
  /\ uiEvents < MaxUiEvents
  /\ uiEvents' = uiEvents + 1
  /\ mounted' = FALSE
  /\ intervalId' = 0
  /\ resizeListener' = FALSE
  /\ rafPending' = IF animationRef # 0 THEN Without(rafPending, animationRef) ELSE rafPending
  /\ queued' = NoUpdates
  /\ UNCHANGED <<brainVars, view, effectsPending, intervals, animationRef, rect, canvas, drawn,
                 stream, call, sensitivity>>

\* an unmount whose render effect has no cleanup
UnmountKeepingCallback ==
  /\ mounted
  /\ effectsPending = {}
  /\ uiEvents < MaxUiEvents
  /\ uiEvents' = uiEvents + 1
  /\ mounted' = FALSE
  /\ intervals' = IF intervalId # 0 THEN Without(intervals, intervalId) ELSE intervals
  /\ intervalId' = 0
  /\ resizeListener' = FALSE
  /\ queued' = NoUpdates
  /\ UNCHANGED <<brainVars, view, effectsPending, rafPending, animationRef, rect, canvas, drawn,
                 stream, call, sensitivity>>

\* Index.tsx handleExitVisualization: the component unmounts and the cleanups
\* of its three effects run
Unmount ==
  /\ mounted
  /\ effectsPending = {}
  /\ uiEvents < MaxUiEvents
  /\ uiEvents' = uiEvents + 1
  /\ mounted' = FALSE
  /\ intervals' = IF intervalId # 0 THEN Without(intervals, intervalId) ELSE intervals
  /\ intervalId' = 0
  /\ resizeListener' = FALSE
  /\ rafPending' = IF animationRef # 0 THEN Without(rafPending, animationRef) ELSE rafPending
  /\ queued' = NoUpdates
  /\ UNCHANGED <<brainVars, view, effectsPending, animationRef, rect, canvas, drawn, stream, call, sensitivity>>

\* a sensitivity change that the page passes on to the component as its
\* intensity
setSensitivityAsIntensity(value) ==
  /\ value # sensitivity
  /\ sensitivity' = value
  /\ mounted
  /\ effectsPending = {}
  /\ uiEvents < MaxUiEvents
  /\ uiEvents' = uiEvents + 1
  /\ view' = renderComponent(view.isPlaying, value, view.mode).view
  /\ queued' = NoUpdates
  /\ runEffects(renderComponent(view.isPlaying, value, view.mode).effects,
                renderComponent(view.isPlaying, value, view.mode).view)
  /\ UNCHANGED <<brainVars, mounted, effectsPending, rect, drawn, stream, call>>

\* ControlPanel onSensitivityChange (Index.tsx 113-114): the page sets its
\* sensitivity state, and React renders the page and the component, whose
\* props (lines 100-105) are what they were, and runs the effects of that
\* render
setSensitivity(value) ==
  /\ value # sensitivity
  /\ sensitivity' = value
  /\ mounted
  /\ effectsPending = {}
  /\ uiEvents < MaxUiEvents
  /\ uiEvents' = uiEvents + 1
  /\ view' = renderComponent(view.isPlaying, view.intensity, view.mode).view
  /\ queued' = NoUpdates
  /\ runEffects(renderComponent(view.isPlaying, view.intensity, view.mode).effects,
                renderComponent(view.isPlaying, view.intensity, view.mode).view)
  /\ UNCHANGED <<brainVars, mounted, effectsPending, rect, drawn, stream, call>>

Next ==
  \/ \E k \in 1..Len(intervals), input \in TickInputs : AnalysisTick(k, input.now, input.r)
  \/ Rerender
  \/ FlushEffects
  \/ AnimationFrame
  \/ handleTogglePlay
  \/ \E m \in ModesPicked : setVisualMode(m)
  \/ \E v \in Intensities : setIntensity(v)
  \/ \E box \in Rects : WindowResize(box)
  \/ Unmount

Spec == Init /\ [][Next]_vars

\* the page with its play button and its sensitivity slider
NextPage ==
  \/ \E k \in 1..Len(intervals), input \in TickInputs : AnalysisTick(k, input.now, input.r)
  \/ Rerender
  \/ FlushEffects
  \/ AnimationFrame
  \/ handleTogglePlay
  \/ \E value \in Sensitivities : setSensitivity(value)

SpecPage == Init /\ [][NextPage]_vars

-----------------------------------------------------------------------------
(* Direct use of the two classes: a caller that constructs a MusicBrain    *)
(* and a ColorBrain and feeds them frames, with no component mounted.      *)

BrainTicks == 2
StreamTicks == 22

InitCaller ==
  /\ InitBrains
  /\ mounted = FALSE
  /\ view = InitialView
  /\ queued = NoUpdates
  /\ effectsPending = {}
  /\ intervals = <<>>
  /\ intervalId = 0
  /\ rafPending = <<>>
  /\ animationRef = 0
  /\ resizeListener = FALSE
  /\ rect = InitialRect
  /\ canvas = DefaultCanvas
  /\ drawn = [kind |-> "none", mode |-> "", audioData |-> 0, audioFeatures |-> 0,
              currentPalette |-> 0]
  /\ uiEvents = 0
  /\ call = <<>>
  /\ sensitivity = InitialSensitivity

\* analyzeAudio(f) followed by generatePalette(features, context)
AnalyzeFrame(f, r) ==
  /\ StoreRun(f, r, pipeline(f, r, previousFeatures, beatHistory, energyHistory,
                             time, colorHistory, transitionSpeed))
  /\ UNCHANGED <<componentVars, stream, call, sensitivity>>

InitBrain == InitCaller /\ stream = <<>>

NextBrain == \E f \in TestFrames, r \in Randoms : time < BrainTicks /\ AnalyzeFrame(f, r)

SpecBrain == InitBrain /\ [][NextBrain]_vars

\* input streams: every test frame repeated with its draws pinned, and two
\* streams that alternate between two frames
ConstantStreams == {<<[newData |-> f, r |-> r]>> : f \in TestFrames, r \in Randoms}

AlternatingStreams ==
  {<<[newData |-> Uniform(0), r |-> r], [newData |-> Uniform(8), r |-> r]>> : r \in Randoms}
  \cup {<<[newData |-> BassOnly(8), r |-> r], [newData |-> Comb(1), r |-> r]>> : r \in Randoms}

InitStream == InitCaller /\ stream \in ConstantStreams \cup AlternatingStreams

\* the caller feeds the next frame of its stream
FeedStream ==
  /\ time < StreamTicks
  /\ LET input == stream[(time % Len(stream)) + 1]
     IN AnalyzeFrame(input.newData, input.r)

NextStream == FeedStream

SpecStream == InitStream /\ [][NextStream]_vars

-----------------------------------------------------------------------------
(* Direct calls of single methods, on a fresh extractor.                   *)

\* frames shorter than the 128 samples the component delivers
ShortLengths == {0, 4, 8, 9, 24, 32, 33, 80, 81, 96, 97, 127}
ShortFrames ==
  {[i \in 1..n |-> v] : n \in ShortLengths, v \in {0, 4, 8}}
  \cup {[i \in 1..n |-> IF i % 2 = 0 THEN 8 ELSE 0] : n \in ShortLengths}

\* feature values on both sides of every threshold of determineMood
MoodLevels == {0 - 500, 0, 299, 300, 301, 399, 400, 401, 499, 500, 501, 599, 600, 601,
               699, 700, 701, Scale}

\* the statistics of analyzeAudio evaluated on a short frame
CallSliceStatistics(f) ==
  /\ call' = <<[method |-> "sliceStatistics", arguments |-> <<f>>,
                result |-> sliceStatistics(f)]>>
  /\ UNCHANGED <<brainVars, componentVars, stream, sensitivity>>

CallDetermineMood(energy, harmony, dynamics) ==
  /\ call' = <<[method |-> "determineMood", arguments |-> <<energy, harmony, dynamics>>,
                result |-> determineMood(energy, harmony, dynamics)]>>
  /\ UNCHANGED <<brainVars, componentVars, stream, sensitivity>>

\* hues in [0,360) and interpolation factors in [0,1]
HueLevels == {0, 10 * Scale, 90 * Scale, 170 * Scale, 180 * Scale, 190 * Scale,
              270 * Scale, 350 * Scale, 359 * Scale}
FactorLevels == {0, 100, 500, Scale}

CallInterpolateHue(h1, h2, t) ==
  /\ call' = <<[method |-> "interpolateHue", arguments |-> <<h1, h2, t>>,
                result |-> [diff |-> hueDifference(h1, h2),
                            hue |-> interpolateHue(h1, h2, t)]]>>
  /\ UNCHANGED <<brainVars, componentVars, stream, sensitivity>>

\* the amount addWarmth is called with (line 409)
WarmthAmounts == {300}

CallShiftTowardsWarmth(hue, amount) ==
  /\ call' = <<[method |-> "shiftTowardsWarmth", arguments |-> <<hue, amount>>,
                result |-> shiftTowardsWarmth(hue, amount)]>>
  /\ UNCHANGED <<brainVars, componentVars, stream, sensitivity>>

\* nodes of drawNeuralNetwork: positions in pixels, intensity in thousandths
NodePositions == {<<0, 0>>, <<89, 120>>, <<90, 120>>}
NodeIntensities == {0, 300, 301, 900}
NodeLevels ==
  {[x |-> p[1], y |-> p[2], intensity |-> i] : p \in NodePositions, i \in NodeIntensities}
NodeLists == {<<a, b>> : a \in NodeLevels, b \in NodeLevels}

\* a drawNeuralNetwork loop that connects two nodes only when both are
\* above the threshold
connectionsOfActivePairs(nodes) ==
  {<<i, j>> \in (1..Len(nodes)) \X (1..Len(nodes)) :
     /\ i < j
     /\ (nodes[i].x - nodes[j].x) * (nodes[i].x - nodes[j].x)
          + (nodes[i].y - nodes[j].y) * (nodes[i].y - nodes[j].y) < 150 * 150
     /\ nodes[i].intensity > 300 /\ nodes[j].intensity > 300}

\* the connections drawNeuralNetwork draws between its nodes (lines
\* 422-441); a distance is below 150 when its square is below 150 * 150
connections(nodes) ==
  {<<i, j>> \in (1..Len(nodes)) \X (1..Len(nodes)) :
     /\ i < j
     /\ (nodes[i].x - nodes[j].x) * (nodes[i].x - nodes[j].x)
          + (nodes[i].y - nodes[j].y) * (nodes[i].y - nodes[j].y) < 150 * 150
     /\ (nodes[i].intensity > 300 \/ nodes[j].intensity > 300)}

CallDrawNeuralNetwork(nodes) ==
  /\ call' = <<[method |-> "drawNeuralNetwork", arguments |-> nodes,
                result |-> connections(nodes)]>>
  /\ UNCHANGED <<brainVars, componentVars, stream, sensitivity>>

InitCalls == InitCaller /\ stream = <<>>

\* the caller makes one call
NextCalls ==
  \/ \E f \in ShortFrames : call = <<>> /\ CallSliceStatistics(f)
  \/ \E energy \in MoodLevels \ {0 - 500}, harmony \in MoodLevels,
        dynamics \in MoodLevels \ {0 - 500} :
       call = <<>> /\ CallDetermineMood(energy, harmony, dynamics)
  \/ \E h1 \in HueLevels, h2 \in HueLevels, t \in FactorLevels :
       call = <<>> /\ CallInterpolateHue(h1, h2, t)
  \/ \E hue \in HueLevels, amount \in WarmthAmounts :
       call = <<>> /\ CallShiftTowardsWarmth(hue, amount)
  \/ \E nodes \in NodeLists : call = <<>> /\ CallDrawNeuralNetwork(nodes)

SpecCalls == InitCalls /\ [][NextCalls]_vars

-----------------------------------------------------------------------------
(* Properties *)

\* the colors of a palette
PaletteColors(palette) ==
  {palette.primary, palette.secondary, palette.accent, palette.background, palette.glow}
  \cup {palette.particles[k] : k \in 1..Len(palette.particles)}

\* C1: after any number of calls beatHistory and energyHistory hold at most
\* 20 entries and colorHistory at most 10, and a call made while a history
\* is full drops that history's oldest entry and appends the new one.
C1_HistoryCapsFifo ==
  [][time' # time =>
       LET fifo(history, value, cap) ==
             IF Len(history) = cap THEN Append(Tail(history), value)
                                   ELSE Append(history, value)
       IN /\ Len(beatHistory') <= 20
          /\ Len(energyHistory') <= 20
          /\ Len(colorHistory') <= 10
          /\ beatHistory' = fifo(beatHistory, lastTick'[1].analysis.features.rhythm, 20)
          /\ energyHistory' = fifo(energyHistory, lastTick'[1].analysis.features.energy, 20)
          /\ colorHistory' = fifo(colorHistory, lastTick'[1].palette, 10)]_vars

\* C1 witness: all three histories are full after an eviction, and in each
\* the oldest entry differs from the newest
C1_Witness ==
  /\ time > 20
  /\ Len(beatHistory) = 20 /\ beatHistory[1] # beatHistory[20]
  /\ Len(energyHistory) = 20 /\ energyHistory[1] # energyHistory[20]
  /\ Len(colorHistory) = 10 /\ colorHistory[1] # colorHistory[10]

\* C2: every scene animate draws is drawn from a frame, features and a
\* palette that the same tick published, or from the initial values of all
\* three.
C2_SceneFromOneTick ==
  drawn.kind = "scene" =>
    /\ drawn.audioData = drawn.audioFeatures
    /\ drawn.audioFeatures = drawn.currentPalette

\* C2 witness: a scene drawn from what the second tick published
C2_Witness ==
  drawn.kind = "scene" /\ drawn.audioData = 2 /\ drawn.currentPalette = 2

\* C3: in every tick the context is classified from the features computed in
\* that tick and the features retained from the tick before, the palette is
\* generated from the features and context of that tick and the palettes
\* retained before it, and the tick ends with its features retained, its
\* palette in colorHistory and its four values published; a tick is one
\* step, so none starts before the one before it has ended.
C3_TickOrder ==
  [][time' # time =>
       LET tick == lastTick'[1]
           features == tick.analysis.features
           context == tick.analysis.context
       IN /\ time' = time + 1
          /\ features.bass = extractBass(tick.newData)
          /\ features.energy = calculateEnergy(tick.newData)
          /\ context.beatDrop =
               (/\ previousFeatures # <<>>
                /\ features.bass - previousFeatures[1].bass > 300
                /\ features.energy - previousFeatures[1].energy > 200)
          /\ context.emotionalIntensity
               = features.energy + features.dynamics + features.harmony
          /\ tick.palette
               = generatePalette(features, context, colorHistory, transitionSpeed,
                                 tick.r).palette
          /\ previousFeatures' = <<features>>
          /\ colorHistory'[Len(colorHistory')] = tick.palette
          /\ \A f \in DOMAIN queued' : queued'[f] = <<time'>>]_vars

\* C3 witness: a second tick whose context reports a beat drop
C3_Witness ==
  /\ mounted
  /\ time = 2
  /\ lastTick[1].analysis.context.beatDrop
  /\ queued # NoUpdates

\* C4: a step that changes the mode or the layout box of the canvas leaves
\* previousFeatures, beatHistory, energyHistory and colorHistory as they are.
C4_HistoriesSurvive ==
  [][(view'.mode # view.mode \/ rect' # rect) =>
       UNCHANGED <<previousFeatures, beatHistory, energyHistory, colorHistory>>]_vars

\* C4 witness: the mode was switched after a scene of the first tick was
\* drawn in the old mode, the window was resized, and the histories hold
\* the entries of both ticks
C4_Witness ==
  /\ view.mode = "neural"
  /\ rect # InitialRect
  /\ drawn.kind = "scene" /\ drawn.mode = "sacred" /\ drawn.audioData = 1
  /\ Len(beatHistory) = 2 /\ Len(energyHistory) = 2 /\ Len(colorHistory) = 2
  /\ previousFeatures # <<>>

\* the component is mounted, the latest render had isPlaying false, and the
\* effects of that render have run
Stopped == mounted /\ ~view.isPlaying /\ effectsPending = {}

\* some registered interval timer can fire
TickEnabled == \E k \in 1..Len(intervals) : TickReady(k)

\* C5 as stated: once a stop has taken effect neither an analysis tick nor
\* an animation-frame callback can run.
C5_StopHaltsBoth ==
  Stopped => (~TickEnabled /\ ~ENABLED AnimationFrame)

\* C5 as amended: once a stop has taken effect no interval timer is
\* registered and no analysis tick can run, while an animation-frame
\* callback stays pending and every pending one only clears the canvas.
C5_StopHaltsAnalysisOnly ==
  Stopped =>
    /\ intervals = <<>>
    /\ ~TickEnabled
    /\ ENABLED AnimationFrame
    /\ \A k \in 1..Len(rafPending) : animate(rafPending[k].closure).kind = "cleared"

\* C5 witness: stopped after a tick, and a callback has cleared the canvas
C5_Witness ==
  Stopped /\ time >= 1 /\ drawn.kind = "cleared" /\ rafPending # <<>>

\* C6: while the component is playing (from its first effects on), an
\* analysis tick can run in every state, up to the model's bound on ticks,
\* and an animation-frame callback can run in every state, whatever ran
\* before.
C6_NoBackpressure ==
  (mounted /\ view.isPlaying /\ "resize" \notin effectsPending) =>
    /\ time < MaxTicks => TickEnabled
    /\ ENABLED AnimationFrame

\* C6 witness: two ticks have run and no frame has been drawn yet, and a
\* frame callback is pending
C6_Witness ==
  /\ mounted /\ view.isPlaying
  /\ time = 2
  /\ drawn.kind = "none"
  /\ rafPending # <<>>

\* C7: every color of every palette generatePalette returns has its hue in
\* [0, 360) and its saturation and lightness in [0, 100].
C7_PaletteInGamut ==
  lastTick # <<>> =>
    \A c \in PaletteColors(lastTick[1].palette) :
      /\ 0 <= c.h /\ c.h < 360 * Scale
      /\ 0 <= c.s /\ c.s <= 100 * Scale
      /\ 0 <= c.l /\ c.l <= 100 * Scale

C9_SettlesAtRefined ==
  (Len(stream) = 1 /\ time = StreamTicks) =>
    lastTick[1].palette = refinedPalette(lastTick[1].analysis.features,
                                         lastTick[1].analysis.context, lastTick[1].r)

\* C10: the tempo analyzeAudio returns lies in [60, 180].
C10_TempoInRange ==
  lastTick # <<>> =>
    /\ 60 * Scale <= lastTick[1].analysis.features.tempo
    /\ lastTick[1].analysis.features.tempo <= 180 * Scale

\* C11: the harmony analyzeAudio returns lies in [0,1] for every frame of
\* length 128.
C11_HarmonyInUnit ==
  lastTick # <<>> =>
    /\ 0 <= lastTick[1].analysis.features.harmony
    /\ lastTick[1].analysis.features.harmony <= Scale

\* C12: bass, mid, treble, dynamics and energy returned by analyzeAudio lie
\* in [0,1] for every frame the component's frame source delivers, the
\* intensity being anywhere up to 2.0.
C12_BandsInUnit ==
  lastTick # <<>> =>
    LET features == lastTick[1].analysis.features
    IN \A x \in {features.bass, features.mid, features.treble, features.dynamics,
                 features.energy} : 0 <= x /\ x <= Scale

\* C13: parseHSL applied to any color of a palette generatePalette returns
\* gives back the hue, saturation and lightness that were printed into it.
C13_ParseRoundTrips ==
  lastTick # <<>> =>
    \A color \in PaletteColors(lastTick[1].palette) :
      parseHSL(color) = hsl(color.h, color.s, color.l)

\* C14: on a frame shorter than 128 samples every statistic analyzeAudio
\* computes over an empty slice is 0, not NaN.
C14_EmptySliceGivesZero ==
  (call # <<>> /\ call[1].method = "sliceStatistics") =>
    LET audioData == call[1].arguments[1]
        result == call[1].result
        zeroWhenEmpty(slice, statistic) == Len(slice) = 0 => statistic = Num(0)
    IN /\ zeroWhenEmpty(Slice(audioData, 0, 32), result.bass)
       /\ zeroWhenEmpty(Slice(audioData, 32, 96), result.mid)
       /\ zeroWhenEmpty(Slice(audioData, 96, Len(audioData)), result.treble)
       /\ zeroWhenEmpty(Slice(audioData, 8, 24), result.vocalLow)
       /\ zeroWhenEmpty(Slice(audioData, 80, 120), result.vocalHigh)
       /\ zeroWhenEmpty(audioData, result.dynamics)
       /\ zeroWhenEmpty(audioData, result.energy)
       /\ zeroWhenEmpty(audioData, result.instrumentalDensity)

\* C15: the first analyzeAudio call of an extractor, on 128 samples of 0,
\* returns features all 0 with tempo 120 and mood mysterious, and a context
\* with no beat drop, no vocal presence, density 0, emotional intensity 0
\* and genre acoustic.
C15_ScenarioSilence ==
  (time = 1 /\ lastTick[1].newData = Uniform(0)) =>
    /\ lastTick[1].analysis.features
         = [bass |-> 0, mid |-> 0, treble |-> 0, rhythm |-> 0, melody |-> 0,
            harmony |-> 0, dynamics |-> 0, energy |-> 0, tempo |-> 120 * Scale,
            mood |-> "mysterious"]
    /\ lastTick[1].analysis.context
         = [beatDrop |-> FALSE, vocalPresence |-> FALSE, instrumentalDensity |-> 0,
            emotionalIntensity |-> 0, genreHint |-> "acoustic"]

\* C15 witness: the first call was made on the silent frame
C15_Witness ==
  /\ time = 1
  /\ lastTick[1].newData = Uniform(0)
  /\ previousFeatures # <<>>
  /\ previousFeatures[1].mood = "mysterious"

\* C16: the first analyzeAudio call of an extractor, on 128 samples of 1.0,
\* returns bass = mid = treble = 1, rhythm 1.2, melody 1.4, harmony 0,
\* dynamics 0, energy 1, tempo 120, mood joyful and genre electronic.
C16_ScenarioFullScale ==
  (time = 1 /\ lastTick[1].newData = Uniform(SampleScale)) =>
    /\ lastTick[1].analysis.features
         = [bass |-> Scale, mid |-> Scale, treble |-> Scale, rhythm |-> 1200,
            melody |-> 1400, harmony |-> 0, dynamics |-> 0, energy |-> Scale,
            tempo |-> 120 * Scale, mood |-> "joyful"]
    /\ lastTick[1].analysis.context.genreHint = "electronic"

\* C16 witness: the first call was made on the full-scale frame
C16_Witness ==
  /\ time = 1
  /\ lastTick[1].newData = Uniform(SampleScale)
  /\ beatHistory = <<1200>>
  /\ previousFeatures[1].melody > Scale

\* the rhythm of a tick that multiplies by the consistency of the last four
\* beatHistory entries when multiply holds
RhythmOf(features, bh, multiply) ==
  LET raw == Max((features.bass * 1200) \div Scale, (features.mid * 800) \div Scale)
  IN IF multiply
       THEN (raw * (Scale + (calculateConsistency(LastN(bh, 4)) * 500) \div Scale)) \div Scale
       ELSE raw

\* C17 as stated: a tick's rhythm carries the consistency multiplier exactly
\* when beatHistory holds at least 4 entries before the tick (from the 5th
\* tick on), and is max(bass*1.2, mid*0.8) otherwise.
C17_MultiplierFromFour ==
  [][time' # time =>
       lastTick'[1].analysis.features.rhythm
         = RhythmOf(lastTick'[1].analysis.features, beatHistory, Len(beatHistory) >= 4)]_vars

\* C17 as amended: a tick's rhythm carries the consistency multiplier exactly
\* when beatHistory holds at least 5 entries before the tick (from the 6th
\* tick on), and is max(bass*1.2, mid*0.8) otherwise.
C17_MultiplierFromFive ==
  [][time' # time =>
       lastTick'[1].analysis.features.rhythm
         = RhythmOf(lastTick'[1].analysis.features, beatHistory, Len(beatHistory) >= 5)]_vars

\* C17 witness: the first five ticks returned the raw rhythm and the sixth
\* one and a half times it
C17_Witness ==
  /\ time = 6
  /\ beatHistory[1] > 0
  /\ beatHistory[5] = beatHistory[1]
  /\ beatHistory[6] > beatHistory[5]
  /\ beatHistory[6] = lastTick[1].analysis.features.rhythm

\* C18: the first tick of an extractor returns mid*0.6 + treble*0.8 as the
\* melody, unclamped, and every later tick returns a melody of at most 1.
C18_MelodyClampedAfterFirst ==
  [][time' # time =>
       LET features == lastTick'[1].analysis.features
       IN IF previousFeatures = <<>>
            THEN features.melody
                   = (features.mid * 600) \div Scale + (features.treble * 800) \div Scale
            ELSE features.melody <= Scale]_vars

\* C18 witness: a second tick whose melody was cut down to 1
C18_Witness ==
  /\ time = 2
  /\ lastTick[1].analysis.features.melody = Scale
  /\ (lastTick[1].analysis.features.mid * 600) \div Scale
       + (lastTick[1].analysis.features.treble * 800) \div Scale > Scale

\* C19: the beatDrop a tick reports is true exactly when a tick came before
\* it and its bass exceeds the bass that tick returned by more than 0.3 and
\* its energy exceeds the energy that tick returned by more than 0.2.
C19_BeatDropAgainstLastTick ==
  [][time' # time =>
       lastTick'[1].analysis.context.beatDrop
         = (/\ lastTick # <<>>
            /\ lastTick'[1].analysis.features.bass
                 - lastTick[1].analysis.features.bass > 300
            /\ lastTick'[1].analysis.features.energy
                 - lastTick[1].analysis.features.energy > 200)]_vars

\* C19 witness: a second tick that reports a beat drop
C19_Witness ==
  /\ ~mounted
  /\ time = 2
  /\ lastTick[1].analysis.context.beatDrop
  /\ stream = <<>>

\* C20: determineMood returns calm when energy < 0.3 and harmony > 0.6,
\* otherwise energetic when energy > 0.7 and dynamics > 0.5, otherwise
\* dramatic when harmony < 0.4 and dynamics > 0.6, otherwise mysterious when
\* energy < 0.5 and harmony < 0.5, otherwise joyful: one of the five moods.
C20_MoodRules ==
  (call # <<>> /\ call[1].method = "determineMood") =>
    LET energy == call[1].arguments[1]
        harmony == call[1].arguments[2]
        dynamics == call[1].arguments[3]
        calm == energy < 300 /\ harmony > 600
        energetic == energy > 700 /\ dynamics > 500
        dramatic == harmony < 400 /\ dynamics > 600
        mysterious == energy < 500 /\ harmony < 500
        mood == call[1].result
    IN /\ mood \in Moods
       /\ (mood = "calm") = calm
       /\ (mood = "energetic") = (~calm /\ energetic)
       /\ (mood = "dramatic") = (~calm /\ ~energetic /\ dramatic)
       /\ (mood = "mysterious") = (~calm /\ ~energetic /\ ~dramatic /\ mysterious)
       /\ (mood = "joyful") = (~calm /\ ~energetic /\ ~dramatic /\ ~mysterious)

\* C20 witness: a call that matches the rule for energetic and the rule for
\* dramatic, and returns energetic
C20_Witness ==
  /\ call # <<>>
  /\ call[1].method = "determineMood"
  /\ call[1].arguments[1] > 700
  /\ call[1].arguments[2] < 400
  /\ call[1].arguments[3] > 600
  /\ call[1].result = "energetic"

C22_ShortestArc ==
  (call # <<>> /\ call[1].method = "interpolateHue") =>
    /\ Abs(call[1].result.diff) <= 180 * Scale
    /\ 0 <= call[1].result.hue
    /\ call[1].result.hue < 360 * Scale
    /\ call[1].arguments[3] = Scale => call[1].result.hue = call[1].arguments[2]

\* C23: shiftTowardsWarmth moves a hue toward whichever of 0, 30 and 60 is
\* nearest to it around the color circle, by the given share of that
\* angular distance (a hue of 350 moves toward 0).
C23_ShiftTowardNearestWarm ==
  (call # <<>> /\ call[1].method = "shiftTowardsWarmth") =>
    LET hue == call[1].arguments[1]
        amount == call[1].arguments[2]
        warmHues == {0, 30 * Scale, 60 * Scale}
        angular(w) == Min(Abs(hue - w), 360 * Scale - Abs(hue - w))
        nearest == CHOOSE w \in warmHues : \A v \in warmHues : angular(w) <= angular(v)
        toward == IF Abs(nearest - hue) <= 180 * Scale THEN nearest - hue
                  ELSE nearest - hue + 360 * Scale
    IN call[1].result = (hue + (toward * amount) \div Scale) % (360 * Scale)

\* the blend of two color strings: both parsed, the hue interpolated and the
\* saturation and lightness moved by the share speed from the first to the
\* second
BlendOf(color1, color2, speed) ==
  [h |-> interpolateHue(parseHSL(color1).h, parseHSL(color2).h, speed),
   s |-> parseHSL(color1).s + ((parseHSL(color2).s - parseHSL(color1).s) * speed) \div Scale,
   l |-> parseHSL(color1).l + ((parseHSL(color2).l - parseHSL(color1).l) * speed) \div Scale]

\* returned is refined smoothed against the newest palette of history
SmoothedAgainstNewest(returned, refined, history, speed) ==
  IF history = <<>> THEN returned = refined
  ELSE /\ returned.primary = BlendOf(history[Len(history)].primary, refined.primary, speed)
       /\ returned.secondary
            = BlendOf(history[Len(history)].secondary, refined.secondary, speed)
       /\ returned.accent = BlendOf(history[Len(history)].accent, refined.accent, speed)
       /\ returned.background
            = BlendOf(history[Len(history)].background, refined.background, speed)
       /\ returned.glow = BlendOf(history[Len(history)].glow, refined.glow, speed)
       /\ Len(returned.particles) = Len(refined.particles)
       /\ \A i \in 1..Len(refined.particles) :
            returned.particles[i]
              = IF i <= Len(history[Len(history)].particles)
                  THEN BlendOf(history[Len(history)].particles[i], refined.particles[i], speed)
                  ELSE refined.particles[i]

\* C24: the first generatePalette call returns the refined palette as it
\* is; every later call returns each named color blended from the newest
\* history entry toward the refined one, as many particles as the refined
\* palette has, particle i blended with particle i of the newest history
\* entry where there is one and passed through otherwise; the palette
\* returned is the newest history entry after the call.
C24_SmoothedAgainstLast ==
  [][time' # time =>
       /\ SmoothedAgainstNewest(lastTick'[1].palette,
                                refinedPalette(lastTick'[1].analysis.features,
                                               lastTick'[1].analysis.context,
                                               lastTick'[1].r),
                                colorHistory, transitionSpeed)
       /\ colorHistory'[Len(colorHistory')] = lastTick'[1].palette]_vars

\* C24 witness: the second palette of a stream has more particles than the
\* first and than the third, and the three palettes differ
C24_Witness ==
  /\ time = 3
  /\ Len(colorHistory) = 3
  /\ Len(colorHistory[1].particles) < Len(colorHistory[2].particles)
  /\ Len(colorHistory[3].particles) < Len(colorHistory[2].particles)
  /\ colorHistory[3].primary # colorHistory[2].primary
  /\ colorHistory[3].primary # colorHistory[1].primary
  /\ colorHistory[3] = lastTick[1].palette

\* the square of the distance between two nodes
SquaredDistance(a, b) == (a.x - b.x) * (a.x - b.x) + (a.y - b.y) * (a.y - b.y)

\* C25: in neural mode every connection drawn joins two nodes that both
\* have an intensity above 0.3 and lie less than 150 apart.
C25_BothEndpointsActive ==
  (call # <<>> /\ call[1].method = "drawNeuralNetwork") =>
    \A c \in call[1].result :
      /\ call[1].arguments[c[1]].intensity > 300
      /\ call[1].arguments[c[2]].intensity > 300
      /\ SquaredDistance(call[1].arguments[c[1]], call[1].arguments[c[2]]) < 150 * 150

\* C25 as the code has it: a connection is drawn between two nodes exactly
\* when they lie less than 150 apart and at least one of them has an
\* intensity above 0.3.
C25_OneEndpointActive ==
  (call # <<>> /\ call[1].method = "drawNeuralNetwork") =>
    \A i \in 1..Len(call[1].arguments), j \in 1..Len(call[1].arguments) :
      i < j =>
        (<<i, j>> \in call[1].result
           <=> /\ SquaredDistance(call[1].arguments[i], call[1].arguments[j]) < 150 * 150
               /\ \E k \in {i, j} : call[1].arguments[k].intensity > 300)

\* C25 witness: a connection drawn between a node above 0.3 and a node at 0
C25_Witness ==
  /\ call # <<>>
  /\ call[1].method = "drawNeuralNetwork"
  /\ <<1, 2>> \in call[1].result
  /\ call[1].arguments[1].intensity = 0
  /\ call[1].arguments[2].intensity = 301

\* the closures of a list of timers or callbacks, without their ids
Closures(timers) == [k \in 1..Len(timers) |-> [f \in DOMAIN timers[k] \ {"id"} |-> timers[k][f]]]

\* C26: a change of sensitivity leaves the extractor and palette state, the
\* latest frame and what was computed from it, the canvas and the mount
\* untouched; with no state update waiting it also leaves the published
\* values, the interval timers and the pending animation-frame callbacks as
\* they are, and with updates waiting it commits exactly them, as the render
\* for them would, with as many timers and callbacks as before.
C26_SensitivityUnused ==
  [][sensitivity' # sensitivity =>
       /\ UNCHANGED <<brainVars, mounted, rect, drawn, effectsPending>>
       /\ queued' = NoUpdates
       /\ queued = NoUpdates =>
            UNCHANGED <<view, intervals, intervalId, rafPending, animationRef,
                        resizeListener, canvas>>
       /\ queued # NoUpdates =>
            /\ view' = renderComponent(view.isPlaying, view.intensity, view.mode).view
            /\ Closures(intervals') = Closures(intervals)
            /\ Len(rafPending') = Len(rafPending)
            /\ rafPending'[Len(rafPending')].closure = view'
            /\ UNCHANGED <<resizeListener, canvas>>]_vars

\* C26 witness: sensitivity was changed while playing, between two ticks,
\* and the second tick was drawn
C26_Witness ==
  /\ sensitivity # InitialSensitivity
  /\ time = 2
  /\ uiEvents = 1
  /\ view.isPlaying
  /\ drawn.kind = "scene"
  /\ drawn.audioData = 2

\* C27: at most one interval timer is registered at any time, and it is the
\* one the latest run of the analysis effect registered; none is registered
\* while the rendered isPlaying is false, and none after unmount.
C27_OneInterval ==
  /\ Len(intervals) <= 1
  /\ \A k \in 1..Len(intervals) : intervals[k].id = intervalId
  /\ ~view.isPlaying => intervals = <<>>
  /\ ~mounted => intervals = <<>>

\* C27 witness: the analysis effect has re-run for two ticks and for a
\* change of intensity, and one timer with the new intensity is registered
C27_Witness ==
  /\ mounted
  /\ time = 2
  /\ queued = NoUpdates
  /\ effectsPending = {}
  /\ view.audioData = 2
  /\ view.intensity = 2000
  /\ Len(intervals) = 1
  /\ intervals[1].intensity = 2000

\* C28: at most one animation-frame callback is pending at any time, while
\* mounted it is the one animationRef names, a callback that runs leaves
\* exactly one successor pending, and none is pending after unmount.
C28_OneCallback ==
  /\ Len(rafPending) <= 1
  /\ mounted => \A k \in 1..Len(rafPending) : rafPending[k].id = animationRef
  /\ (mounted /\ drawn.kind # "none") => Len(rafPending) = 1
  /\ ~mounted => rafPending = <<>>

\* C28 witness: the component was unmounted after a callback drew a scene and
\* the render effect had re-run for a later tick
C28_Witness ==
  /\ ~mounted
  /\ time = 2
  /\ drawn.kind = "scene"
  /\ drawn.audioData = 1
  /\ view.audioData = 2
  /\ rafPending = <<>>

\* C29: while the rendered isPlaying is false no tick runs, and the latest
\* frame, the published values and the state of the two brains stay as they
\* are; a step that pauses or resumes leaves the state of the two brains as
\* it is; and every tick, the first after a resume included, finds melody
\* movement and the beat drop against the features retained before it and
\* smooths against the palettes retained before it.
C29_PausePreservesState ==
  [][/\ time' # time => (view.isPlaying /\ intervals # <<>>)
     /\ (~view.isPlaying /\ ~view'.isPlaying) =>
          /\ UNCHANGED brainVars
          /\ UNCHANGED <<view.audioData, view.audioFeatures, view.musicContext,
                         view.currentPalette>>
     /\ view'.isPlaying # view.isPlaying => UNCHANGED brainVars
     /\ time' # time =>
          /\ lastTick'[1].analysis.features.melody
               = analyzeMelody(lastTick'[1].analysis.features.mid,
                               lastTick'[1].analysis.features.treble, previousFeatures)
          /\ lastTick'[1].analysis.context.beatDrop
               = detectBeatDrop(lastTick'[1].analysis.features, previousFeatures)
          /\ SmoothedAgainstNewest(lastTick'[1].palette,
                                   refinedPalette(lastTick'[1].analysis.features,
                                                  lastTick'[1].analysis.context,
                                                  lastTick'[1].r),
                                   colorHistory, transitionSpeed)]_vars

\* C29 witness: playback was paused and resumed, the canvas still shows the
\* cleared frame of the pause, and the second tick has run since the resume
\* and returned a palette smoothed against the palette of the first
C29_Witness ==
  /\ mounted
  /\ view.isPlaying
  /\ uiEvents = 2
  /\ drawn.kind = "cleared"
  /\ time = 2
  /\ view.audioData = 1
  /\ queued # NoUpdates
  /\ Len(colorHistory) = 2
  /\ lastTick[1].palette # refinedPalette(lastTick[1].analysis.features,
                                          lastTick[1].analysis.context, lastTick[1].r)

\* C30: after k calls of analyzeAudio beatHistory and energyHistory both hold
\* min(k, 20) entries, the entries before the last are those of the calls
\* before in their order and the last are the rhythm and the energy this
\* call returned; the rhythm and the tempo of a call are computed from
\* beatHistory as it was before the call, so the tempo is the default 120 on
\* the first 8 calls and 60 + 120 * the mean of the 8 latest earlier rhythms
\* from the 9th on.
C30_HistoriesInStep ==
  [][time' # time =>
       /\ Len(beatHistory') = Min(time', 20)
       /\ Len(energyHistory') = Min(time', 20)
       /\ \A j \in 1..(Len(beatHistory') - 1) :
            /\ beatHistory'[j] = beatHistory[j + Len(beatHistory) + 1 - Len(beatHistory')]
            /\ energyHistory'[j] = energyHistory[j + Len(energyHistory) + 1 - Len(energyHistory')]
       /\ beatHistory'[Len(beatHistory')] = lastTick'[1].analysis.features.rhythm
       /\ energyHistory'[Len(energyHistory')] = lastTick'[1].analysis.features.energy
       /\ lastTick'[1].analysis.features.rhythm
            = RhythmOf(lastTick'[1].analysis.features, beatHistory, Len(beatHistory) > 4)
       /\ lastTick'[1].analysis.features.tempo
            = IF time' <= 8
                THEN 120 * Scale
                ELSE 60 * Scale
                       + ((beatHistory[Len(beatHistory) - 7] + beatHistory[Len(beatHistory) - 6]
                           + beatHistory[Len(beatHistory) - 5] + beatHistory[Len(beatHistory) - 4]
                           + beatHistory[Len(beatHistory) - 3] + beatHistory[Len(beatHistory) - 2]
                           + beatHistory[Len(beatHistory) - 1] + beatHistory[Len(beatHistory)])
                          \div 8) * 120]_vars

\* C30 witness: the 21st call has dropped the oldest entries, the 8th call
\* before it returned another rhythm than the call itself, and the tempo is
\* not the default
C30_Witness ==
  /\ time = 21
  /\ Len(beatHistory) = 20
  /\ Len(energyHistory) = 20
  /\ beatHistory[13] # beatHistory[20]
  /\ beatHistory[20] = lastTick[1].analysis.features.rhythm
  /\ lastTick[1].analysis.features.tempo # 120 * Scale

=============================================================================
